---- MODULE Spec2Model ----
(***************************************************************************)
(* PowerAdvisor (services/surfaceflinger/DisplayHardware/PowerAdvisor.cpp) *)
(* as a state machine: the coordinator PowerAdvisor, the two HalWrapper    *)
(* implementations (HidlPowerHalWrapper = Legacy, AidlPowerHalWrapper =    *)
(* Modern), the connection logic of getPowerHal() and the screen update    *)
(* timer.                                                                  *)
(*                                                                         *)
(* Units.  Durations (target and actual work durations) are counted in     *)
(* units of 10 microseconds, so 1,000,000 ns is 100.  systemTime() is      *)
(* counted in ticks of 50 ms.  Durations and clock readings are never      *)
(* mixed by the code.                                                      *)
(***************************************************************************)
EXTENDS Integers, Sequences, FiniteSets, TLC

(***************************************************************************)
(* Bounds of the model.                                                    *)
(***************************************************************************)
\* systemTime() advances by at most MaxTime ticks after construction
MaxTime == 3
\* number of sendActualWorkDuration calls accepted by the coordinator
MaxReports == 3

(***************************************************************************)
(* Constants of the program.                                               *)
(***************************************************************************)
\* systemTime() when the PowerAdvisor is constructed: the process starts
\* later than either timeout after the origin of the monotonic clock
StartTime == 3
\* getUpdateTimeout(): 80 ms; on the grid of 50 ms ticks, "80 ms have
\* elapsed" is "2 ticks have elapsed"
UpdateTimeout == 2
\* kStaleTimeout: 100 ms, in ticks of 50 ms
kStaleTimeout == 2
\* kDefaultTarget: 50 ms, in units of 10 us
kDefaultTarget == 5000
\* kTargetSafetyMargin: 2 ms, in units of 10 us
kTargetSafetyMargin == 200
\* kAllowedTargetDeviationPercent (0.1) and kAllowedActualDeviationPercent
\* (0.1), as percentages
kAllowedTargetDeviationPercent == 10
kAllowedActualDeviationPercent == 10

(***************************************************************************)
(* Inputs.                                                                 *)
(***************************************************************************)
DisplayIds == {1, 2}
ThreadIdVectors == {<<>>, <<1>>, <<1, 2>>}
\* arguments of PowerAdvisor::setTargetWorkDuration: after the safety margin
\* they are 0, 1,000,000 ns, 1,050,000 ns and 1,150,000 ns
TargetInputs == {200, 300, 305, 315}
\* arguments of PowerAdvisor::sendActualWorkDuration: a negative duration,
\* 1,000,000 ns, 1,020,000 ns (2% more) and 1,200,000 ns (20% more)
ActualInputs == {-1, 100, 102, 120}

(***************************************************************************)
(* std::optional                                                           *)
(***************************************************************************)
None == <<>>
Some(x) == <<x>>
HasValue(o) == o # <<>>
ValueOr(o, d) == IF o = <<>> THEN d ELSE o[1]

Abs(x) == IF x < 0 THEN -x ELSE x

\* static_cast<int64_t> of a quotient: truncation toward zero
TruncDiv(a, b) ==
  IF b = 0 THEN 0
  ELSE IF (a >= 0) = (b > 0) THEN Abs(a) \div Abs(b) ELSE -(Abs(a) \div Abs(b))

(***************************************************************************)
(* HalWrapper objects.  A call that reaches the backend is written         *)
(* <<name, argument, ok>>; every wrapper operation yields the wrapper      *)
(* after it, the backend calls it made, and its return value.              *)
(***************************************************************************)
\* a null std::unique_ptr<HalWrapper>
NoHal == [kind |-> "none"]

HidlPowerHalWrapper == [kind |-> "hidl"]

\* the constructor: the three capability probes, the members at their defaults
AidlPowerHalWrapper(hasER, hasDUI, supportsHint) ==
  [kind |-> "aidl",
   mHasExpensiveRendering |-> hasER,
   mHasDisplayUpdateImminent |-> hasDUI,
   mSupportsPowerHint |-> supportsHint,
   mShouldReconnectHal |-> FALSE,
   mPowerHintSession |-> FALSE,
   mPowerHintQueue |-> <<>>,
   mTargetDuration |-> kDefaultTarget,
   mActualDuration |-> None,
   mPowerHintThreadIds |-> <<>>,
   mLastActualDurationSent |-> None,
   mLastActualReportTimestamp |-> 0,
   mLastTargetDurationSent |-> kDefaultTarget]

AidlConstructorCalls ==
  << <<"isModeSupported", "EXPENSIVE_RENDERING", TRUE>>,
     <<"isBoostSupported", "DISPLAY_UPDATE_IMMINENT", TRUE>>,
     <<"getHintSessionPreferredRate", "", TRUE>> >>

Ret(w, calls, ret) == [hal |-> w, calls |-> calls, ret |-> ret]

\* WorkDuration::timeStampNanos of the records of a queue
Stamps(q) == [i \in 1..Len(q) |-> q[i].timeStampNanos]

\* a variant that makes the call a second time when it failed
HidlSetExpensiveRendering_Retries(w, enabled, ok) ==
  IF ok THEN Ret(w, << <<"powerHintAsync_1_3", enabled, ok>> >>, ok)
  ELSE Ret(w, << <<"powerHintAsync_1_3", enabled, ok>>,
                 <<"powerHintAsync_1_3", enabled, ok>> >>, ok)

HidlSetExpensiveRendering(w, enabled, ok) ==
  Ret(w, << <<"powerHintAsync_1_3", enabled, ok>> >>, ok)

\* a variant that sends the mode without looking at the capability
AidlSetExpensiveRendering_NoCapability(w, enabled, ok) ==
  Ret(w, << <<"setMode", enabled, ok>> >>, ok)

AidlSetExpensiveRendering(w, enabled, ok) ==
  IF ~w.mHasExpensiveRendering
  THEN Ret(w, <<>>, TRUE)
  ELSE Ret(w, << <<"setMode", enabled, ok>> >>, ok)

HidlNotifyDisplayUpdateImminent(w, ok) == Ret(w, <<>>, TRUE)

\* a variant that sends the boost without looking at the capability
AidlNotifyDisplayUpdateImminent_NoCapability(w, ok) ==
  Ret(w, << <<"setBoost", "DISPLAY_UPDATE_IMMINENT", ok>> >>, ok)

AidlNotifyDisplayUpdateImminent(w, ok) ==
  IF ~w.mHasDisplayUpdateImminent
  THEN Ret(w, <<>>, TRUE)
  ELSE Ret(w, << <<"setBoost", "DISPLAY_UPDATE_IMMINENT", ok>> >>, ok)

AidlIsPowerHintSessionRunning(w) == w.mPowerHintSession

\* ~AidlPowerHalWrapper and closePowerHintSession
AidlClosePowerHintSession(w) ==
  IF w.mPowerHintSession
  THEN Ret([w EXCEPT !.mPowerHintSession = FALSE], << <<"close", "", TRUE>> >>, TRUE)
  ELSE Ret(w, <<>>, TRUE)

AidlStartPowerHintSession(w, ok) ==
  IF w.mPowerHintSession \/ w.mPowerHintThreadIds = <<>>
  THEN Ret(w, <<>>, FALSE)
  ELSE LET call == <<"createHintSession",
                     <<w.mPowerHintThreadIds, w.mTargetDuration>>, ok>>
       IN IF ok
          THEN Ret([w EXCEPT !.mPowerHintSession = TRUE,
                             !.mLastTargetDurationSent = w.mTargetDuration],
                   <<call>>, TRUE)
          ELSE Ret(w, <<call>>, FALSE)

\* a variant that starts the hint session without closing the open one
AidlRestartPowerHintSession_NoClose(w, ok) ==
  Ret(AidlStartPowerHintSession(w, ok).hal, AidlStartPowerHintSession(w, ok).calls, TRUE)

AidlRestartPowerHintSession(w, ok) ==
  LET c == AidlClosePowerHintSession(w)
      s == AidlStartPowerHintSession(c.hal, ok)
  IN Ret(s.hal, c.calls \o s.calls, TRUE)

AidlSetPowerHintSessionThreadIds(w, threadIds, ok) ==
  IF threadIds # w.mPowerHintThreadIds
  THEN LET w1 == [w EXCEPT !.mPowerHintThreadIds = threadIds]
       IN IF AidlIsPowerHintSessionRunning(w1)
          THEN AidlRestartPowerHintSession(w1, ok)
          ELSE Ret(w1, <<>>, TRUE)
  ELSE Ret(w, <<>>, TRUE)

\* abs(1.0 - a / b) >= pct / 100 for b # 0, in exact arithmetic
DeviatesBy(a, b, pct) == 100 * Abs(b - a) >= pct * Abs(b)

\* a variant without the deviation threshold
AidlShouldSetTargetDuration_AnyChange(w, targetDurationNanos) ==
  targetDurationNanos > 0

AidlShouldSetTargetDuration(w, targetDurationNanos) ==
  IF targetDurationNanos <= 0
  THEN FALSE
  ELSE DeviatesBy(w.mLastTargetDurationSent, targetDurationNanos,
                  kAllowedTargetDeviationPercent)

AidlSetTargetWorkDuration(w, targetDurationNanos, normalize, ok) ==
  LET w1 == [w EXCEPT !.mTargetDuration = targetDurationNanos]
  IN IF ~normalize /\ AidlIsPowerHintSessionRunning(w1)
        /\ AidlShouldSetTargetDuration(w1, targetDurationNanos)
     THEN Ret([w1 EXCEPT !.mLastTargetDurationSent = targetDurationNanos,
                         !.mShouldReconnectHal = IF ok THEN @ ELSE TRUE],
              << <<"updateTargetWorkDuration", targetDurationNanos, ok>> >>, TRUE)
     ELSE Ret(w1, <<>>, TRUE)

\* a variant without the staleness bound
AidlShouldReportActualDurationsNow_NeverStale(w, time) ==
  IF ~HasValue(w.mLastActualDurationSent)
  THEN TRUE
  ELSE IF ~HasValue(w.mActualDuration)
  THEN FALSE
  ELSE DeviatesBy(w.mActualDuration[1], w.mLastActualDurationSent[1],
                  kAllowedActualDeviationPercent)

\* a division by zero gives an infinity (which passes the threshold) unless
\* the dividend is zero too (NaN, which fails every comparison)
AidlShouldReportActualDurationsNow(w, time) ==
  IF ~HasValue(w.mLastActualDurationSent)
     \/ (time - w.mLastActualReportTimestamp) > kStaleTimeout
  THEN TRUE
  ELSE IF ~HasValue(w.mActualDuration)
  THEN FALSE
  ELSE LET mostRecentActualDuration == w.mActualDuration[1]
           lastReportedActualDuration == w.mLastActualDurationSent[1]
       IN IF lastReportedActualDuration = 0
          THEN mostRecentActualDuration # 0
          ELSE DeviatesBy(mostRecentActualDuration, lastReportedActualDuration,
                          kAllowedActualDeviationPercent)

\* a variant that queues the measured duration as it is
ReportedDuration_Unadjusted(w, actualDurationNanos, normalize) == actualDurationNanos

\* the duration that is queued: normalized, or scaled by lastSent / target
ReportedDuration(w, actualDurationNanos, normalize) ==
  IF normalize
  THEN actualDurationNanos + (w.mLastTargetDurationSent - w.mTargetDuration)
  ELSE IF w.mLastTargetDurationSent # kDefaultTarget /\ w.mTargetDuration # 0
  THEN TruncDiv(w.mLastTargetDurationSent * actualDurationNanos, w.mTargetDuration)
  ELSE actualDurationNanos

\* a variant that leaves the reported records in the queue
AidlSendActualWorkDuration_KeepsQueue(w, actualDurationNanos, timeStampNanos, time, normalize, ok) ==
  IF actualDurationNanos < 0 \/ ~AidlIsPowerHintSessionRunning(w)
  THEN Ret(w, <<>>, FALSE)
  ELSE LET reportedDuration == ReportedDuration(w, actualDurationNanos, normalize)
           duration == [durationNanos |-> reportedDuration,
                        timeStampNanos |-> timeStampNanos]
           w1 == [w EXCEPT !.mActualDuration = Some(reportedDuration),
                           !.mPowerHintQueue = Append(@, duration)]
       IN IF AidlShouldReportActualDurationsNow(w1, time)
          THEN Ret([w1 EXCEPT !.mLastActualReportTimestamp = time,
                              !.mShouldReconnectHal = IF ok THEN @ ELSE TRUE,
                              !.mLastActualDurationSent = Some(reportedDuration)],
                   << <<"reportActualWorkDuration", w1.mPowerHintQueue, ok>> >>, TRUE)
          ELSE Ret(w1, <<>>, TRUE)

\* a variant that clears the queue only when the report call succeeded
AidlSendActualWorkDuration_KeepsQueueOnFailure(w, actualDurationNanos, timeStampNanos, time, normalize, ok) ==
  IF actualDurationNanos < 0 \/ ~AidlIsPowerHintSessionRunning(w)
  THEN Ret(w, <<>>, FALSE)
  ELSE LET reportedDuration == ReportedDuration(w, actualDurationNanos, normalize)
           duration == [durationNanos |-> reportedDuration,
                        timeStampNanos |-> timeStampNanos]
           w1 == [w EXCEPT !.mActualDuration = Some(reportedDuration),
                           !.mPowerHintQueue = Append(@, duration)]
       IN IF AidlShouldReportActualDurationsNow(w1, time)
          THEN Ret([w1 EXCEPT !.mLastActualReportTimestamp = time,
                              !.mShouldReconnectHal = IF ok THEN @ ELSE TRUE,
                              !.mPowerHintQueue = IF ok THEN <<>> ELSE @,
                              !.mLastActualDurationSent = Some(reportedDuration)],
                   << <<"reportActualWorkDuration", w1.mPowerHintQueue, ok>> >>, TRUE)
          ELSE Ret(w1, <<>>, TRUE)

AidlSendActualWorkDuration(w, actualDurationNanos, timeStampNanos, time, normalize, ok) ==
  IF actualDurationNanos < 0 \/ ~AidlIsPowerHintSessionRunning(w)
  THEN Ret(w, <<>>, FALSE)
  ELSE LET reportedDuration == ReportedDuration(w, actualDurationNanos, normalize)
           duration == [durationNanos |-> reportedDuration,
                        timeStampNanos |-> timeStampNanos]
           w1 == [w EXCEPT !.mActualDuration = Some(reportedDuration),
                           !.mPowerHintQueue = Append(@, duration)]
       IN IF AidlShouldReportActualDurationsNow(w1, time)
          THEN Ret([w1 EXCEPT !.mLastActualReportTimestamp = time,
                              !.mShouldReconnectHal = IF ok THEN @ ELSE TRUE,
                              !.mPowerHintQueue = <<>>,
                              !.mLastActualDurationSent = Some(reportedDuration)],
                   << <<"reportActualWorkDuration", w1.mPowerHintQueue, ok>> >>, TRUE)
          ELSE Ret(w1, <<>>, TRUE)

(***************************************************************************)
(* The virtual calls of HalWrapper.                                        *)
(***************************************************************************)
halSetExpensiveRendering(w, enabled, ok) ==
  IF w.kind = "aidl" THEN AidlSetExpensiveRendering(w, enabled, ok)
  ELSE HidlSetExpensiveRendering(w, enabled, ok)

halNotifyDisplayUpdateImminent(w, ok) ==
  IF w.kind = "aidl" THEN AidlNotifyDisplayUpdateImminent(w, ok)
  ELSE HidlNotifyDisplayUpdateImminent(w, ok)

\* a variant in which every session supports hint sessions
halSupportsPowerHintSession_Always(w) == TRUE

halSupportsPowerHintSession(w) ==
  IF w.kind = "aidl" THEN w.mSupportsPowerHint ELSE FALSE

halSetPowerHintSessionThreadIds(w, threadIds, ok) ==
  IF w.kind = "aidl" THEN AidlSetPowerHintSessionThreadIds(w, threadIds, ok)
  ELSE Ret(w, <<>>, TRUE)

halStartPowerHintSession(w, ok) ==
  IF w.kind = "aidl" THEN AidlStartPowerHintSession(w, ok)
  ELSE Ret(w, <<>>, FALSE)

halSetTargetWorkDuration(w, targetDurationNanos, normalize, ok) ==
  IF w.kind = "aidl" THEN AidlSetTargetWorkDuration(w, targetDurationNanos, normalize, ok)
  ELSE Ret(w, <<>>, TRUE)

halSendActualWorkDuration(w, actualDurationNanos, timeStampNanos, time, normalize, ok) ==
  IF w.kind = "aidl"
  THEN AidlSendActualWorkDuration(w, actualDurationNanos, timeStampNanos, time, normalize, ok)
  ELSE Ret(w, <<>>, FALSE)

\* a variant that never asks for a reconnect
shouldReconnectHAL_Never(w) == FALSE

shouldReconnectHAL(w) ==
  IF w.kind = "aidl" THEN w.mShouldReconnectHal ELSE FALSE

\* a variant that yields no thread ids
getPowerHintSessionThreadIds_Empty(w) == <<>>

getPowerHintSessionThreadIds(w) ==
  IF w.kind = "aidl" THEN w.mPowerHintThreadIds ELSE <<>>

getTargetWorkDuration(w) ==
  IF w.kind = "aidl" THEN Some(w.mTargetDuration) ELSE None

\* a variant whose destructor leaves the hint session open
DestroyWrapper_Leaks(w) == <<>>

\* the destructor run when the unique_ptr is reset
DestroyWrapper(w) ==
  IF w.kind = "aidl" THEN AidlClosePowerHintSession(w).calls ELSE <<>>

(***************************************************************************)
(* The state of the program.                                               *)
(***************************************************************************)
VARIABLES
  mBootFinished,                \* PowerAdvisor members
  mExpensiveDisplays,
  mNotifiedExpensiveRendering,
  mPowerHintEnabled,
  mSupportsPowerHint,
  mPowerHintSessionRunning,
  mReconnectPowerHal,
  mSendUpdateImminent,
  mLastScreenUpdatedTime,
  mScreenUpdateTimer,           \* "absent", or the OneShotTimer's state
  sHalWrapper,                  \* the statics of getPowerHal()
  sHasHal,
  sNormalizeTarget,             \* debug.sf.normalize_hint_session_durations
  now,                          \* systemTime()
  fault,                        \* "none", or how the process stopped
  lastOp,                       \* the operation of the last step, its arguments
  halCalls,                     \* the backend calls of the last step, in order
  probes,                       \* the connect() calls of the last step, in order
  connected,                    \* what the connection attempt of the last step
                                \* found and left behind, if it made one
  boostsSinceArm,               \* setBoost calls since the timeout callback
                                \* last stored true (counted up to 2)
  nReports,                     \* reports queued so far
  accepted,                     \* time stamps of the records queued on the
                                \* current wrapper, ever
  sent,                         \* time stamps of the records passed to
                                \* reportActualWorkDuration on it, ever
  delivered,                    \* the value the current wrapper's
                                \* setExpensiveRendering() accepted last,
                                \* FALSE if it accepted none
  callers                       \* the threads that are inside
                                \* setExpensiveRenderingExpected, and where

vars == <<mBootFinished, mExpensiveDisplays, mNotifiedExpensiveRendering,
          mPowerHintEnabled, mSupportsPowerHint, mPowerHintSessionRunning,
          mReconnectPowerHal, mSendUpdateImminent, mLastScreenUpdatedTime,
          mScreenUpdateTimer, sHalWrapper, sHasHal, sNormalizeTarget, now,
          fault, lastOp, halCalls, probes, connected, boostsSinceArm, nReports,
          accepted, sent, delivered, callers>>

(***************************************************************************)
(* What one operation can meet in its environment: which services a        *)
(* connection attempt finds, what a new Modern service supports, whether   *)
(* the backend calls of the operation succeed, and what a virtual call on  *)
(* a null HalWrapper does.                                                 *)
(***************************************************************************)
\* the part of the coordinator getPowerHal() reads and writes, as the thread
\* of one operation sees it, with the backend calls and connect() calls the
\* operation has made so far
Ctx ==
  [hal |-> sHalWrapper, hasHal |-> sHasHal, reconnect |-> mReconnectPowerHal,
   running |-> mPowerHintSessionRunning, supports |-> mSupportsPowerHint,
   enabled |-> mPowerHintEnabled, calls |-> <<>>, probes |-> <<>>,
   connected |-> None, fault |-> "none", delivered |-> None]

Out(c, ret) == [ctx |-> c, ret |-> ret]

\* getPowerHal() would connect: it has no wrapper, or discards the one it has
NeedsConnect(c) ==
  c.hasHal /\ (c.hal.kind = "none" \/ c.reconnect \/ shouldReconnectHAL(c.hal))

\* what a connection attempt can find: no service, the Legacy service, or a
\* Modern service with its capabilities (with or without the Legacy one)
Service(aidlUp, hidlUp, hasER, hasDUI, supportsHint) ==
  [aidlUp |-> aidlUp, hidlUp |-> hidlUp, hasER |-> hasER, hasDUI |-> hasDUI,
   supportsHint |-> supportsHint]

NoService == Service(FALSE, FALSE, FALSE, FALSE, FALSE)
LegacyService == Service(FALSE, TRUE, FALSE, FALSE, FALSE)

AllServices ==
  {NoService, LegacyService}
  \cup {Service(TRUE, FALSE, er, dui, sh) : er \in BOOLEAN, dui \in BOOLEAN, sh \in BOOLEAN}

\* svc: the services the environment can offer; usesOk, usesCreate: the
\* operation can make a call of its own, can open a hint session.  A choice
\* that the operation cannot meet is left at one value.
Env(c, svc, usesOk, usesCreate) ==
  {[aidlUp |-> k.aidlUp, hidlUp |-> k.hidlUp, hasER |-> k.hasER, hasDUI |-> k.hasDUI,
    supportsHint |-> k.supportsHint, ok |-> o, okCreate |-> oc, nullCall |-> n] :
     k \in IF NeedsConnect(c) THEN svc ELSE {NoService},
     o \in IF usesOk THEN BOOLEAN ELSE {TRUE},
     oc \in IF usesCreate
               \/ (NeedsConnect(c) /\ getPowerHintSessionThreadIds(c.hal) # <<>>)
            THEN BOOLEAN ELSE {TRUE},
     n \in IF ~HasValue(c.supports) /\ (~c.hasHal \/ NeedsConnect(c))
           THEN {"crash", "true", "false"} ELSE {"crash"}}

(***************************************************************************)
(* PowerAdvisor::supportsPowerHintSession, usePowerHintSession and         *)
(* getPowerHal.                                                            *)
(***************************************************************************)
\* supportsPowerHintSession() called by a thread that holds mPowerHalMutex
\* (from getPowerHal(), and from startPowerHintSession() under its lock).
\* With the cache empty it locks the mutex again: std::mutex is a
\* non-recursive pthread mutex, and the second lock never returns.
SupportsPowerHintSessionLocked(c) ==
  IF HasValue(c.supports)
  THEN Out(c, c.supports[1])
  ELSE Out([c EXCEPT !.fault = "deadlock"], FALSE)

UsePowerHintSessionLocked(c) ==
  IF ValueOr(c.enabled, FALSE)
  THEN SupportsPowerHintSessionLocked(c)
  ELSE Out(c, FALSE)

\* the coordinator after a call on its wrapper: r is what the call yields
Called(c, r) == [c EXCEPT !.hal = r.hal, !.calls = @ \o r.calls]

\* mPowerHintSessionRunning = sHalWrapper->startPowerHintSession()
Started(c, r) == [c EXCEPT !.hal = r.hal, !.calls = @ \o r.calls, !.running = r.ret]

\* "only start if possible to run and both threadids and duration are
\* defined": u is what usePowerHintSession() yields
ResumeHintSession(u, oldPowerHintSessionThreadIds, e) ==
  IF u.ctx.fault = "none" /\ u.ret /\ oldPowerHintSessionThreadIds # <<>>
  THEN Started(u.ctx, halStartPowerHintSession(u.ctx.hal, e.okCreate))
  ELSE u.ctx

\* "if AIDL, pass on any existing hint session values": c holds the new
\* wrapper with the thread ids set
PassOnHintSession(c, oldPowerHintSessionThreadIds, oldTargetWorkDuration, e) ==
  IF ~HasValue(oldTargetWorkDuration)
  THEN c
  ELSE ResumeHintSession(
         UsePowerHintSessionLocked(
           Called(c, halSetTargetWorkDuration(c.hal, oldTargetWorkDuration[1],
                                              sNormalizeTarget, e.ok))),
         oldPowerHintSessionThreadIds, e)

\* AidlPowerHalWrapper::connect(), then HidlPowerHalWrapper::connect() if it
\* returned null, and what getPowerHal() does with the result
Connect(c, oldPowerHintSessionThreadIds, oldTargetWorkDuration, e) ==
  IF e.aidlUp
  THEN PassOnHintSession(
         Called([c EXCEPT !.probes = @ \o <<"aidl">>,
                          !.calls = @ \o AidlConstructorCalls],
                halSetPowerHintSessionThreadIds(
                  AidlPowerHalWrapper(e.hasER, e.hasDUI, e.supportsHint),
                  oldPowerHintSessionThreadIds, e.okCreate)),
         oldPowerHintSessionThreadIds, oldTargetWorkDuration, e)
  ELSE IF e.hidlUp
  THEN [c EXCEPT !.probes = @ \o <<"aidl", "hidl">>, !.hal = HidlPowerHalWrapper]
  ELSE [c EXCEPT !.probes = @ \o <<"aidl", "hidl">>, !.hasHal = FALSE]

\* "grab old hint session values before we destroy any existing wrapper"
OldPowerHintSessionThreadIds(c) ==
  IF c.hal.kind # "none" THEN getPowerHintSessionThreadIds(c.hal) ELSE <<>>

OldTargetWorkDuration(c) ==
  IF c.hal.kind # "none" THEN getTargetWorkDuration(c.hal) ELSE None

\* "If we used to have a HAL, but it stopped responding, attempt to reconnect"
DiscardIfRequested(c) ==
  IF c.reconnect
  THEN [c EXCEPT !.calls = @ \o DestroyWrapper(c.hal), !.hal = NoHal, !.reconnect = FALSE]
  ELSE c

\* the record of a connection attempt: c is the coordinator when getPowerHal()
\* was entered, r the coordinator after the attempt
Connected(c, r, e) ==
  [r EXCEPT !.connected =
     Some([aidlUp |-> e.aidlUp, hidlUp |-> e.hidlUp,
           hadWrapper |-> c.hal.kind # "none", old |-> c.hal,
           hal |-> r.hal, running |-> r.running, calls |-> r.calls,
           enabled |-> r.enabled, supports |-> r.supports])]

\* a variant that leaves mPowerHintSessionRunning as it was when the wrapper
\* is remade
ReturnOrConnect_KeepsRunning(c, c1, e) ==
  IF c1.hal.kind # "none" /\ ~shouldReconnectHAL(c1.hal)
  THEN c1
  ELSE Connected(c,
                 Connect([c1 EXCEPT !.calls = @ \o DestroyWrapper(c1.hal),
                                    !.hal = NoHal],
                         OldPowerHintSessionThreadIds(c), OldTargetWorkDuration(c), e),
                 e)

\* c1 is the coordinator after DiscardIfRequested: the wrapper is returned if
\* there is one that does not ask for a reconnect, else it is remade
ReturnOrConnect(c, c1, e) ==
  IF c1.hal.kind # "none" /\ ~shouldReconnectHAL(c1.hal)
  THEN c1
  ELSE Connected(c,
                 Connect([c1 EXCEPT !.calls = @ \o DestroyWrapper(c1.hal),
                                    !.hal = NoHal, !.running = FALSE],
                         OldPowerHintSessionThreadIds(c), OldTargetWorkDuration(c), e),
                 e)

\* the result is c.hal: NoHal stands for the nullptr getPowerHal() returns
GetPowerHal(c, e) ==
  IF ~c.hasHal THEN c ELSE ReturnOrConnect(c, DiscardIfRequested(c), e)

\* the virtual call halWrapper->supportsPowerHintSession() on what
\* getPowerHal() returned, which is null when no backend is reachable:
\* undefined behaviour, a crash or any answer
CacheSupport(c, e) ==
  IF c.fault # "none"
  THEN c
  ELSE IF c.hal.kind = "none"
  THEN IF e.nullCall = "crash"
       THEN [c EXCEPT !.fault = "crash"]
       ELSE [c EXCEPT !.supports = Some(e.nullCall = "true")]
  ELSE [c EXCEPT !.supports = Some(halSupportsPowerHintSession(c.hal))]

\* return *mSupportsPowerHint
CachedSupport(c) == Out(c, ValueOr(c.supports, FALSE))

\* supportsPowerHintSession() called without the mutex held
SupportsPowerHintSession(c, e) ==
  IF HasValue(c.supports)
  THEN CachedSupport(c)
  ELSE CachedSupport(CacheSupport(GetPowerHal(c, e), e))

UsePowerHintSession(c, e) ==
  IF ValueOr(c.enabled, FALSE)
  THEN SupportsPowerHintSession(c, e)
  ELSE Out(c, FALSE)

(***************************************************************************)
(* The screen update timer (scheduler::OneShotTimer): start() begins a     *)
(* countdown; reset() runs the reset callback and restarts the countdown;  *)
(* when the countdown ends the timeout callback runs once and the timer is *)
(* idle until the next reset().                                            *)
(***************************************************************************)
Timer(state, triggerTime) == [state |-> state, triggerTime |-> triggerTime]

HasTimer == mScreenUpdateTimer.state # "absent"

\* OneShotTimer::start()
TimerStart(t, time) == Timer("waiting", time + UpdateTimeout)

\* OneShotTimer::reset(): without a running timer thread nothing happens; a
\* timer thread that is inside the timeout callback finishes the callback and
\* takes the reset afterwards (a trigger time other than 0 marks it)
TimerReset(t, time) ==
  IF t.state = "unstarted" THEN t
  ELSE IF t.state \in {"firing", "checked"} THEN Timer(t.state, time + UpdateTimeout)
  ELSE Timer("waiting", time + UpdateTimeout)

(***************************************************************************)
(* The threads that call setExpensiveRenderingExpected at the same time:   *)
(* where each is in the function (the source line it executes next) and    *)
(* its local expectsExpensiveRendering.                                    *)
(***************************************************************************)
Callers == {1, 2}

Caller(pc, expectsExpensiveRendering) ==
  [pc |-> pc, expectsExpensiveRendering |-> expectsExpensiveRendering]

\* not inside the function
Outside == Caller("outside", FALSE)

(***************************************************************************)
(* The initial state: the constructor, the member initialisers, the        *)
(* statics.                                                                *)
(***************************************************************************)
Init ==
  /\ mBootFinished = FALSE
  /\ mExpensiveDisplays = {}
  /\ mNotifiedExpensiveRendering = FALSE
  /\ mPowerHintEnabled = None
  /\ mSupportsPowerHint = None
  /\ mPowerHintSessionRunning = FALSE
  /\ mReconnectPowerHal = FALSE
  /\ mSendUpdateImminent = TRUE
  /\ mLastScreenUpdatedTime = 0
  /\ mScreenUpdateTimer \in {Timer("absent", 0), Timer("unstarted", 0)}
  /\ sHalWrapper = NoHal
  /\ sHasHal = TRUE
  /\ sNormalizeTarget \in BOOLEAN
  /\ now = StartTime
  /\ fault = "none"
  /\ lastOp = <<"PowerAdvisor">>
  /\ halCalls = <<>>
  /\ probes = <<>>
  /\ connected = None
  /\ boostsSinceArm = 0
  /\ nReports = 0
  /\ accepted = <<>>
  /\ sent = <<>>
  /\ delivered = FALSE
  /\ callers = [t \in Callers |-> Outside]

(***************************************************************************)
(* What every operation writes back: the coordinator state its thread      *)
(* left, and the record of the step.  The records of queued and sent       *)
(* reports start afresh with every new wrapper.                            *)
(***************************************************************************)
StepCommit(c, op, queued, batch) ==
  /\ sHalWrapper' = c.hal
  /\ sHasHal' = c.hasHal
  /\ mReconnectPowerHal' = c.reconnect
  /\ mPowerHintSessionRunning' = c.running
  /\ mSupportsPowerHint' = c.supports
  /\ fault' = c.fault
  /\ halCalls' = c.calls
  /\ probes' = c.probes
  /\ connected' = c.connected
  /\ lastOp' = op
  /\ accepted' = (IF c.probes # <<>> THEN <<>> ELSE accepted) \o queued
  /\ sent' = (IF c.probes # <<>> THEN <<>> ELSE sent) \o batch
  /\ delivered' = IF HasValue(c.delivered) THEN c.delivered[1]
                  ELSE IF c.probes # <<>> THEN FALSE ELSE delivered

\* a whole operation, run by one thread with no other thread inside one
Commit(c, op, queued, batch) ==
  /\ StepCommit(c, op, queued, batch)
  /\ UNCHANGED callers

\* a step that does not touch the backend connection
StepLocal(op) ==
  /\ lastOp' = op
  /\ halCalls' = <<>>
  /\ probes' = <<>>
  /\ connected' = None
  /\ UNCHANGED <<sHalWrapper, sHasHal, mReconnectPowerHal, mPowerHintSessionRunning,
                 mSupportsPowerHint, fault, accepted, sent, delivered>>

\* an operation that does not touch the backend connection
Local(op) ==
  /\ StepLocal(op)
  /\ UNCHANGED callers

\* a variant in which the operations do not wait for onBootFinished()
BootFinished_Always == TRUE

\* mBootFinished.load(), as notifyDisplayUpdateImminent and
\* sendActualWorkDuration read it on entry
BootFinished == mBootFinished

\* the setBoost calls among the backend calls of a step
IsBoost(call) == call[1] = "setBoost"

Boosts(calls) == Len(SelectSeq(calls, IsBoost))

Min(a, b) == IF a <= b THEN a ELSE b

(***************************************************************************)
(* The public operations of PowerAdvisor.                                  *)
(***************************************************************************)
init ==
  /\ fault = "none"
  /\ mScreenUpdateTimer.state \in {"absent", "unstarted"}
  /\ mScreenUpdateTimer' = IF HasTimer THEN TimerStart(mScreenUpdateTimer, now)
                           ELSE mScreenUpdateTimer
  /\ Local(<<"init">>)
  /\ UNCHANGED <<mBootFinished, mExpensiveDisplays, mNotifiedExpensiveRendering,
                 mPowerHintEnabled, mSendUpdateImminent, mLastScreenUpdatedTime,
                 sNormalizeTarget, now, nReports, boostsSinceArm>>

onBootFinished ==
  /\ fault = "none"
  /\ mBootFinished' = TRUE
  /\ Local(<<"onBootFinished">>)
  /\ UNCHANGED <<mExpensiveDisplays, mNotifiedExpensiveRendering, mPowerHintEnabled,
                 mSendUpdateImminent, mLastScreenUpdatedTime, mScreenUpdateTimer,
                 sNormalizeTarget, now, nReports, boostsSinceArm>>

setExpensiveRenderingExpected(displayId, expected, e) ==
  LET op == <<"setExpensiveRenderingExpected", displayId, expected>>
      displays == IF expected THEN mExpensiveDisplays \cup {displayId}
                  ELSE mExpensiveDisplays \ {displayId}
      expectsExpensiveRendering == displays # {}
  IN /\ fault = "none"
     /\ mExpensiveDisplays' = displays
     /\ IF mNotifiedExpensiveRendering # expectsExpensiveRendering
        THEN \E c \in {GetPowerHal(Ctx, e)} :
               IF c.fault # "none" \/ c.hal.kind = "none"
               THEN /\ Commit(c, op, <<>>, <<>>)
                    /\ UNCHANGED mNotifiedExpensiveRendering
               ELSE \E r \in {halSetExpensiveRendering(c.hal, expectsExpensiveRendering, e.ok)} :
                      IF ~r.ret
                      THEN /\ Commit([Called(c, r) EXCEPT !.reconnect = TRUE], op, <<>>, <<>>)
                           /\ UNCHANGED mNotifiedExpensiveRendering
                      ELSE /\ Commit([Called(c, r) EXCEPT
                                        !.delivered = Some(expectsExpensiveRendering)],
                                     op, <<>>, <<>>)
                           /\ mNotifiedExpensiveRendering' = expectsExpensiveRendering
        ELSE /\ Local(op)
             /\ UNCHANGED mNotifiedExpensiveRendering
     /\ UNCHANGED <<mBootFinished, mPowerHintEnabled, mSendUpdateImminent,
                    mLastScreenUpdatedTime, mScreenUpdateTimer, sNormalizeTarget,
                    now, nReports, boostsSinceArm>>

(***************************************************************************)
(* setExpensiveRenderingExpected run by several threads at once.  Lines    *)
(* 122 to 129 take no lock, so another thread can run between them; lines  *)
(* 130 to 143 run with mPowerHalMutex held and read only the thread's      *)
(* local, so no other thread's step can tell them from one step.           *)
(***************************************************************************)
\* a step of caller t that writes callers only besides what is named in it
CallerStep(t, pc, expectsExpensiveRendering) ==
  /\ callers' = [callers EXCEPT ![t] = Caller(pc, expectsExpensiveRendering)]
  /\ UNCHANGED <<mBootFinished, mPowerHintEnabled, mSendUpdateImminent,
                 mLastScreenUpdatedTime, mScreenUpdateTimer, sNormalizeTarget,
                 now, nReports, boostsSinceArm>>

\* lines 122-126: insert or erase the display id
setExpensiveRenderingExpected_Update(t, displayId, expected) ==
  /\ fault = "none"
  /\ callers[t].pc = "outside"
  /\ mExpensiveDisplays' = IF expected THEN mExpensiveDisplays \cup {displayId}
                           ELSE mExpensiveDisplays \ {displayId}
  /\ CallerStep(t, "128", FALSE)
  /\ StepLocal(<<"setExpensiveRenderingExpected", displayId, expected>>)
  /\ UNCHANGED mNotifiedExpensiveRendering

\* line 128: expectsExpensiveRendering = !mExpensiveDisplays.empty()
setExpensiveRenderingExpected_Aggregate(t) ==
  /\ fault = "none"
  /\ callers[t].pc = "128"
  /\ CallerStep(t, "129", mExpensiveDisplays # {})
  /\ StepLocal(<<"setExpensiveRenderingExpected_128", t>>)
  /\ UNCHANGED <<mExpensiveDisplays, mNotifiedExpensiveRendering>>

\* line 129: the test of mNotifiedExpensiveRendering, made without the lock
setExpensiveRenderingExpected_Compare(t) ==
  /\ fault = "none"
  /\ callers[t].pc = "129"
  /\ IF mNotifiedExpensiveRendering # callers[t].expectsExpensiveRendering
     THEN CallerStep(t, "130", callers[t].expectsExpensiveRendering)
     ELSE CallerStep(t, "outside", FALSE)
  /\ StepLocal(<<"setExpensiveRenderingExpected_129", t>>)
  /\ UNCHANGED <<mExpensiveDisplays, mNotifiedExpensiveRendering>>

\* lines 130-143: under the lock, getPowerHal(), the call, the store
setExpensiveRenderingExpected_Locked(t, e) ==
  LET op == <<"setExpensiveRenderingExpected_130", t>>
      expectsExpensiveRendering == callers[t].expectsExpensiveRendering
  IN /\ fault = "none"
     /\ callers[t].pc = "130"
     /\ \E c \in {GetPowerHal(Ctx, e)} :
          IF c.fault # "none" \/ c.hal.kind = "none"
          THEN /\ StepCommit(c, op, <<>>, <<>>)
               /\ UNCHANGED mNotifiedExpensiveRendering
          ELSE \E r \in {halSetExpensiveRendering(c.hal, expectsExpensiveRendering, e.ok)} :
                 IF ~r.ret
                 THEN /\ StepCommit([Called(c, r) EXCEPT !.reconnect = TRUE], op, <<>>, <<>>)
                      /\ UNCHANGED mNotifiedExpensiveRendering
                 ELSE /\ StepCommit([Called(c, r) EXCEPT
                                        !.delivered = Some(expectsExpensiveRendering)],
                                     op, <<>>, <<>>)
                      /\ mNotifiedExpensiveRendering' = expectsExpensiveRendering
     /\ CallerStep(t, "outside", FALSE)
     /\ UNCHANGED mExpensiveDisplays

notifyDisplayUpdateImminent(e) ==
  LET op == <<"notifyDisplayUpdateImminent">>
      stamp == IF HasTimer THEN now ELSE mLastScreenUpdatedTime
  IN /\ fault = "none"
     /\ IF ~BootFinished
        THEN /\ Local(op)
             /\ UNCHANGED <<mSendUpdateImminent, mLastScreenUpdatedTime, mScreenUpdateTimer>>
        ELSE IF mSendUpdateImminent
        THEN \E c \in {GetPowerHal(Ctx, e)} :
               IF c.fault # "none" \/ c.hal.kind = "none"
               THEN /\ Commit(c, op, <<>>, <<>>)
                    /\ mSendUpdateImminent' = FALSE
                    /\ UNCHANGED <<mLastScreenUpdatedTime, mScreenUpdateTimer>>
               ELSE \E r \in {halNotifyDisplayUpdateImminent(c.hal, e.ok)} :
                      IF ~r.ret
                      THEN /\ Commit([Called(c, r) EXCEPT !.reconnect = TRUE], op, <<>>, <<>>)
                           /\ mSendUpdateImminent' = FALSE
                           /\ UNCHANGED <<mLastScreenUpdatedTime, mScreenUpdateTimer>>
                      ELSE /\ Commit(Called(c, r), op, <<>>, <<>>)
                           /\ mScreenUpdateTimer' =
                                IF HasTimer THEN TimerReset(mScreenUpdateTimer, now)
                                ELSE mScreenUpdateTimer
                           \* the reset callback stores false, the branch
                           \* without a timer stores true
                           /\ mSendUpdateImminent' = ~HasTimer
                           /\ mLastScreenUpdatedTime' = stamp
        ELSE /\ Local(op)
             /\ mLastScreenUpdatedTime' = stamp
             /\ UNCHANGED <<mSendUpdateImminent, mScreenUpdateTimer>>
     /\ boostsSinceArm' = IF mSendUpdateImminent' /\ halCalls' # <<>>
                          THEN 0 ELSE Min(2, boostsSinceArm + Boosts(halCalls'))
     /\ UNCHANGED <<mBootFinished, mExpensiveDisplays, mNotifiedExpensiveRendering,
                    mPowerHintEnabled, sNormalizeTarget, now, nReports>>

supportsPowerHintSession(e) ==
  /\ fault = "none"
  /\ Commit(SupportsPowerHintSession(Ctx, e).ctx, <<"supportsPowerHintSession">>, <<>>, <<>>)
  /\ UNCHANGED <<mBootFinished, mExpensiveDisplays, mNotifiedExpensiveRendering,
                 mPowerHintEnabled, mSendUpdateImminent, mLastScreenUpdatedTime,
                 mScreenUpdateTimer, sNormalizeTarget, now, nReports, boostsSinceArm>>

usePowerHintSession(e) ==
  /\ fault = "none"
  /\ Commit(UsePowerHintSession(Ctx, e).ctx, <<"usePowerHintSession">>, <<>>, <<>>)
  /\ UNCHANGED <<mBootFinished, mExpensiveDisplays, mNotifiedExpensiveRendering,
                 mPowerHintEnabled, mSendUpdateImminent, mLastScreenUpdatedTime,
                 mScreenUpdateTimer, sNormalizeTarget, now, nReports, boostsSinceArm>>

isPowerHintSessionRunning ==
  /\ fault = "none"
  /\ Local(<<"isPowerHintSessionRunning", mPowerHintSessionRunning>>)
  /\ UNCHANGED <<mBootFinished, mExpensiveDisplays, mNotifiedExpensiveRendering,
                 mPowerHintEnabled, mSendUpdateImminent, mLastScreenUpdatedTime,
                 mScreenUpdateTimer, sNormalizeTarget, now, nReports, boostsSinceArm>>

enablePowerHint(enabled) ==
  /\ fault = "none"
  /\ mPowerHintEnabled' = Some(enabled)
  /\ Local(<<"enablePowerHint", enabled>>)
  /\ UNCHANGED <<mBootFinished, mExpensiveDisplays, mNotifiedExpensiveRendering,
                 mSendUpdateImminent, mLastScreenUpdatedTime, mScreenUpdateTimer,
                 sNormalizeTarget, now, nReports, boostsSinceArm>>

setTargetWorkDuration(targetDurationNanos, e) ==
  LET op == <<"setTargetWorkDuration", targetDurationNanos>>
  IN /\ fault = "none"
     /\ \E u \in {UsePowerHintSession(Ctx, e)} :
          IF u.ctx.fault # "none" \/ ~u.ret
          THEN Commit(u.ctx, op, <<>>, <<>>)
          ELSE \E c \in {GetPowerHal(u.ctx, e)} :
                 IF c.fault # "none" \/ c.hal.kind = "none"
                 THEN Commit(c, op, <<>>, <<>>)
                 ELSE Commit(Called(c, halSetTargetWorkDuration(
                                         c.hal, targetDurationNanos - kTargetSafetyMargin,
                                         sNormalizeTarget, e.ok)),
                             op, <<>>, <<>>)
     /\ UNCHANGED <<mBootFinished, mExpensiveDisplays, mNotifiedExpensiveRendering,
                    mPowerHintEnabled, mSendUpdateImminent, mLastScreenUpdatedTime,
                    mScreenUpdateTimer, sNormalizeTarget, now, nReports, boostsSinceArm>>

\* the caller stamps every report with a later timeStampNanos than the last
sendActualWorkDuration(actualDurationNanos, e) ==
  LET timeStampNanos == nReports + 1
      op == <<"sendActualWorkDuration", actualDurationNanos>>
  IN /\ fault = "none"
     /\ nReports < MaxReports
     /\ IF ~BootFinished
        THEN Local(op) /\ UNCHANGED nReports
        ELSE \E u \in {UsePowerHintSession(Ctx, e)} :
          IF u.ctx.fault # "none" \/ ~u.ret
          THEN Commit(u.ctx, op, <<>>, <<>>) /\ UNCHANGED nReports
          ELSE \E c \in {GetPowerHal(u.ctx, e)} :
            IF c.fault # "none" \/ c.hal.kind = "none"
            THEN Commit(c, op, <<>>, <<>>) /\ UNCHANGED nReports
            ELSE \E r \in {halSendActualWorkDuration(c.hal, actualDurationNanos,
                                                     timeStampNanos, now,
                                                     sNormalizeTarget, e.ok)} :
                   \* r.ret: a record was queued; the batch of a report call
                   \* is its argument
                   /\ Commit(Called(c, r), op,
                             IF r.ret THEN <<timeStampNanos>> ELSE <<>>,
                             IF r.calls # <<>> THEN Stamps(r.calls[1][2]) ELSE <<>>)
                   /\ nReports' = IF r.ret THEN nReports + 1 ELSE nReports
     /\ UNCHANGED <<mBootFinished, mExpensiveDisplays, mNotifiedExpensiveRendering,
                    mPowerHintEnabled, mSendUpdateImminent, mLastScreenUpdatedTime,
                    mScreenUpdateTimer, sNormalizeTarget, now, boostsSinceArm>>

startPowerHintSession(threadIds, e) ==
  LET op == <<"startPowerHintSession", threadIds>>
  IN /\ fault = "none"
     /\ \E u \in {UsePowerHintSession(Ctx, e)} :
          IF u.ctx.fault # "none"
          THEN Commit(u.ctx, op, <<>>, <<>>)
          ELSE \E c \in {GetPowerHal(u.ctx, e)} :
            IF c.fault # "none" \/ c.hal.kind = "none"
            THEN Commit(c, op, <<>>, <<>>)
            ELSE \E u2 \in {UsePowerHintSessionLocked(c)} :
              IF u2.ctx.fault # "none" \/ ~u2.ret
              THEN Commit(u2.ctx, op, <<>>, <<>>)
              ELSE \E r1 \in {halSetPowerHintSessionThreadIds(u2.ctx.hal, threadIds,
                                                              e.okCreate)} :
                     Commit(Started(Called(u2.ctx, r1),
                                    halStartPowerHintSession(r1.hal, e.okCreate)),
                            op, <<>>, <<>>)
     /\ UNCHANGED <<mBootFinished, mExpensiveDisplays, mNotifiedExpensiveRendering,
                    mPowerHintEnabled, mSendUpdateImminent, mLastScreenUpdatedTime,
                    mScreenUpdateTimer, sNormalizeTarget, now, nReports, boostsSinceArm>>

(***************************************************************************)
(* The timer thread and the clock.                                         *)
(***************************************************************************)
\* the countdown ends: the timer thread enters the timeout callback
TimerExpire ==
  /\ fault = "none"
  /\ mScreenUpdateTimer.state = "waiting"
  /\ now >= mScreenUpdateTimer.triggerTime
  /\ mScreenUpdateTimer' = Timer("firing", 0)
  /\ Local(<<"TimerExpire">>)
  /\ UNCHANGED <<mBootFinished, mExpensiveDisplays, mNotifiedExpensiveRendering,
                 mPowerHintEnabled, mSendUpdateImminent, mLastScreenUpdatedTime,
                 sNormalizeTarget, now, nReports, boostsSinceArm>>

\* the timeout callback reads the clock and mLastScreenUpdatedTime and leaves
\* its loop; while the guard is false it sleeps and reads them again
TimeoutCheck ==
  /\ fault = "none"
  /\ mScreenUpdateTimer.state = "firing"
  /\ now - mLastScreenUpdatedTime >= UpdateTimeout
  /\ mScreenUpdateTimer' = Timer("checked", mScreenUpdateTimer.triggerTime)
  /\ Local(<<"TimeoutCheck">>)
  /\ UNCHANGED <<mBootFinished, mExpensiveDisplays, mNotifiedExpensiveRendering,
                 mPowerHintEnabled, mSendUpdateImminent, mLastScreenUpdatedTime,
                 sNormalizeTarget, now, nReports, boostsSinceArm>>

\* out of the loop, the timeout callback stores true and calls
\* mFlinger.disableExpensiveRendering(); the timer thread is idle after it,
\* unless reset() was called during the callback: then the thread runs the
\* reset callback, which stores false, and begins a new countdown
TimeoutCallback ==
  /\ fault = "none"
  /\ mScreenUpdateTimer.state = "checked"
  /\ mSendUpdateImminent' = (mScreenUpdateTimer.triggerTime = 0)
  /\ boostsSinceArm' = 0
  /\ mScreenUpdateTimer' = IF mScreenUpdateTimer.triggerTime = 0
                           THEN Timer("idle", 0)
                           ELSE Timer("waiting", now + UpdateTimeout)
  /\ Local(<<"disableExpensiveRendering">>)
  /\ UNCHANGED <<mBootFinished, mExpensiveDisplays, mNotifiedExpensiveRendering,
                 mPowerHintEnabled, mLastScreenUpdatedTime, sNormalizeTarget,
                 now, nReports>>

Tick ==
  /\ now < StartTime + MaxTime
  /\ now' = now + 1
  /\ Local(<<"Tick">>)
  /\ UNCHANGED <<mBootFinished, mExpensiveDisplays, mNotifiedExpensiveRendering,
                 mPowerHintEnabled, mSendUpdateImminent, mLastScreenUpdatedTime,
                 mScreenUpdateTimer, sNormalizeTarget, nReports, boostsSinceArm>>

(***************************************************************************)
(* Specifications.  Each explores the operations its claims are about,     *)
(* against the services and with the inputs named in it.                   *)
(***************************************************************************)
\* the services of the coordinator specification: none, Legacy, or a Modern
\* one with both modes and with or without hint sessions, alone or next to
\* the Legacy one
CoordServices ==
  {NoService, LegacyService}
  \cup {Service(TRUE, hidlUp, TRUE, TRUE, sh) : hidlUp \in BOOLEAN, sh \in BOOLEAN}

\* the coordinator: every public operation and the connection logic, without
\* a screen update timer and in proportional mode
InitCoord ==
  /\ Init
  /\ mScreenUpdateTimer.state = "absent"
  /\ sNormalizeTarget = FALSE

Next ==
  \/ init
  \/ onBootFinished
  \/ \E x \in BOOLEAN, e \in Env(Ctx, CoordServices, TRUE, FALSE) :
       setExpensiveRenderingExpected(1, x, e)
  \/ \E e \in Env(Ctx, CoordServices, TRUE, FALSE) : notifyDisplayUpdateImminent(e)
  \/ \E e \in Env(Ctx, CoordServices, FALSE, FALSE) : supportsPowerHintSession(e)
  \/ \E e \in Env(Ctx, CoordServices, FALSE, FALSE) : usePowerHintSession(e)
  \/ isPowerHintSessionRunning
  \/ \E b \in BOOLEAN : enablePowerHint(b)
  \/ \E e \in Env(Ctx, CoordServices, TRUE, FALSE) : setTargetWorkDuration(300, e)
  \/ \E e \in Env(Ctx, CoordServices, TRUE, FALSE) : sendActualWorkDuration(100, e)
  \/ \E e \in Env(Ctx, CoordServices, FALSE, TRUE) : startPowerHintSession(<<1>>, e)

Spec == InitCoord /\ [][Next]_vars

\* the expensive-rendering aggregate
NextExpensive ==
  \/ \E d \in DisplayIds, x \in BOOLEAN, e \in Env(Ctx, AllServices, TRUE, FALSE) :
       setExpensiveRenderingExpected(d, x, e)
  \/ onBootFinished
  \/ enablePowerHint(TRUE)
  \/ \E e \in Env(Ctx, AllServices, TRUE, FALSE) : notifyDisplayUpdateImminent(e)

SpecExpensive == Init /\ [][NextExpensive]_vars

\* the update-imminent debounce: the timer thread and the clock
NextDebounce ==
  \/ init
  \/ onBootFinished
  \/ \E e \in Env(Ctx, AllServices, TRUE, FALSE) : notifyDisplayUpdateImminent(e)
  \/ TimerExpire
  \/ TimeoutCheck
  \/ TimeoutCallback
  \/ Tick

SpecDebounce == Init /\ [][NextDebounce]_vars

\* the debounce with a timer thread that runs when it can, a clock that
\* advances, and a renderer that keeps calling notifyDisplayUpdateImminent
SpecDebounceFair ==
  /\ SpecDebounce
  /\ WF_vars(TimerExpire)
  /\ WF_vars(TimeoutCheck)
  /\ WF_vars(TimeoutCallback)
  /\ WF_vars(Tick)
  /\ WF_vars(\E e \in Env(Ctx, AllServices, TRUE, FALSE) : notifyDisplayUpdateImminent(e))

\* the services of the hint-session specifications: a Modern one, with or
\* without hint sessions, or the Legacy one
HintServices ==
  {LegacyService} \cup {Service(TRUE, FALSE, TRUE, TRUE, sh) : sh \in BOOLEAN}

\* resuming a hint session after a reconnect
NextResume ==
  \/ \E b \in BOOLEAN : enablePowerHint(b)
  \/ \E ids \in ThreadIdVectors, e \in Env(Ctx, HintServices, FALSE, TRUE) :
       startPowerHintSession(ids, e)
  \/ \E t \in {300, 315}, e \in Env(Ctx, HintServices, TRUE, FALSE) :
       setTargetWorkDuration(t, e)
  \/ \E x \in BOOLEAN, e \in Env(Ctx, HintServices, TRUE, FALSE) :
       setExpensiveRenderingExpected(1, x, e)

SpecResume == Init /\ [][NextResume]_vars

\* a Modern service with every capability
ModernService == Service(TRUE, FALSE, TRUE, TRUE, TRUE)

\* the target duration of a hint session
NextTarget ==
  \/ \E b \in BOOLEAN : enablePowerHint(b)
  \/ \E ids \in {<<1>>, <<1, 2>>}, e \in Env(Ctx, {ModernService}, FALSE, TRUE) :
       startPowerHintSession(ids, e)
  \/ \E t \in TargetInputs, e \in Env(Ctx, {ModernService}, TRUE, FALSE) :
       setTargetWorkDuration(t, e)

SpecTarget == Init /\ [][NextTarget]_vars

\* the duration reports of a hint session
InitReports ==
  /\ Init
  /\ mScreenUpdateTimer.state = "absent"

NextReports ==
  \/ onBootFinished
  \/ enablePowerHint(TRUE)
  \/ \E e \in Env(Ctx, {ModernService}, FALSE, TRUE) : startPowerHintSession(<<1>>, e)
  \/ \E t \in {300, 305}, e \in Env(Ctx, {ModernService}, TRUE, FALSE) :
       setTargetWorkDuration(t, e)
  \/ \E a \in ActualInputs, e \in Env(Ctx, {ModernService}, TRUE, FALSE) :
       sendActualWorkDuration(a, e)
  \/ Tick

SpecReports == InitReports /\ [][NextReports]_vars

\* the batches of a hint session that is restarted with other thread ids, in
\* proportional mode and with the target left at its default
InitBatches ==
  /\ InitReports
  /\ sNormalizeTarget = FALSE

NextBatches ==
  \/ onBootFinished
  \/ enablePowerHint(TRUE)
  \/ \E ids \in {<<1>>, <<1, 2>>}, e \in Env(Ctx, {ModernService}, FALSE, TRUE) :
       startPowerHintSession(ids, e)
  \/ \E a \in ActualInputs \ {-1}, e \in Env(Ctx, {ModernService}, TRUE, FALSE) :
       sendActualWorkDuration(a, e)
  \/ Tick

SpecBatches == InitBatches /\ [][NextBatches]_vars

\* the hint session of the coordinator: started, restarted with other thread
\* ids, given a target and reports, lost with its session and resumed,
\* against every service
NextSession ==
  \/ \E b \in BOOLEAN : enablePowerHint(b)
  \/ \E ids \in ThreadIdVectors, e \in Env(Ctx, CoordServices, FALSE, TRUE) :
       startPowerHintSession(ids, e)
  \/ \E x \in BOOLEAN, e \in Env(Ctx, CoordServices, TRUE, FALSE) :
       setExpensiveRenderingExpected(1, x, e)
  \/ \E e \in Env(Ctx, CoordServices, TRUE, FALSE) : setTargetWorkDuration(315, e)
  \/ onBootFinished
  \/ \E e \in Env(Ctx, CoordServices, TRUE, FALSE) : sendActualWorkDuration(100, e)
  \/ isPowerHintSessionRunning

SpecSession == InitCoord /\ [][NextSession]_vars

\* failing calls of the two notifications, with the timer thread and the
\* clock
NextFailure ==
  \/ init
  \/ onBootFinished
  \/ \E x \in BOOLEAN, e \in Env(Ctx, CoordServices, TRUE, FALSE) :
       setExpensiveRenderingExpected(1, x, e)
  \/ \E e \in Env(Ctx, CoordServices, TRUE, FALSE) : notifyDisplayUpdateImminent(e)
  \/ TimerExpire
  \/ TimeoutCheck
  \/ TimeoutCallback
  \/ Tick

SpecFailure == Init /\ [][NextFailure]_vars

\* arguments of PowerAdvisor::setTargetWorkDuration around 10 ms and around
\* kDefaultTarget: after the safety margin they are 10 ms, 11 ms, 50 ms and
\* 52 ms
ScalingTargets == {1200, 1300, 5200, 5400}

\* the adjustment of the reported durations, in both modes; 900 is 9 ms
NextScaling ==
  \/ onBootFinished
  \/ enablePowerHint(TRUE)
  \/ \E e \in Env(Ctx, {ModernService}, FALSE, TRUE) : startPowerHintSession(<<1>>, e)
  \/ \E t \in ScalingTargets, e \in Env(Ctx, {ModernService}, TRUE, FALSE) :
       setTargetWorkDuration(t, e)
  \/ \E a \in {0, 900}, e \in Env(Ctx, {ModernService}, TRUE, FALSE) :
       sendActualWorkDuration(a, e)

SpecScaling == InitReports /\ [][NextScaling]_vars

\* the services of a reachable backend: the Legacy one, or a Modern one with
\* or without the expensive-rendering mode
ReachableServices ==
  {LegacyService, Service(TRUE, FALSE, TRUE, TRUE, FALSE),
   Service(TRUE, FALSE, FALSE, TRUE, FALSE)}

\* setExpensiveRenderingExpected called by two threads at once, against a
\* reachable backend whose calls all succeed
NextConcurrent ==
  \/ \E t \in Callers, d \in DisplayIds, x \in BOOLEAN :
       setExpensiveRenderingExpected_Update(t, d, x)
  \/ \E t \in Callers : setExpensiveRenderingExpected_Aggregate(t)
  \/ \E t \in Callers : setExpensiveRenderingExpected_Compare(t)
  \/ \E t \in Callers, e \in Env(Ctx, ReachableServices, FALSE, FALSE) :
       setExpensiveRenderingExpected_Locked(t, e)

SpecConcurrent == InitCoord /\ [][NextConcurrent]_vars

(***************************************************************************)
(* Properties.                                                             *)
(***************************************************************************)
\* the calls of a step that toggle expensive rendering at the backend
IsToggle(call) == call[1] \in {"setMode", "powerHintAsync_1_3"}

Toggles == SelectSeq(halCalls, IsToggle)

\* the aggregate: some display expects expensive rendering
ExpectsExpensiveRendering == mExpensiveDisplays # {}

\* a session whose setExpensiveRendering reaches the backend
SendsExpensiveRendering(w) ==
  w.kind = "hidl" \/ (w.kind = "aidl" /\ w.mHasExpensiveRendering)

\* C1 as stated: a step makes the backend toggle call if and only if it is a
\* setExpensiveRenderingExpected call whose new aggregate differs from the
\* value last notified.
C1_TogglesIffAggregateChanges ==
  [][(Toggles' # <<>>)
       <=> (/\ lastOp'[1] = "setExpensiveRenderingExpected"
            /\ ExpectsExpensiveRendering' # mNotifiedExpensiveRendering)]_vars

\* C1 amended: the toggle call is made only by a setExpensiveRenderingExpected
\* call whose new aggregate differs from the value last notified; such a call
\* makes exactly one toggle call, carrying the new aggregate, when
\* getPowerHal() returns a Legacy session or a Modern one with the
\* expensive-rendering capability, and none otherwise (no session, a Modern
\* session without the capability, or getPowerHal() not returning); the
\* notified value follows the aggregate exactly when the session accepted it.
C1_TogglesWhenAggregateChangesAndSessionSends ==
  [][LET differs == /\ lastOp'[1] = "setExpensiveRenderingExpected"
                    /\ ExpectsExpensiveRendering' # mNotifiedExpensiveRendering
         sends == fault' = "none" /\ SendsExpensiveRendering(sHalWrapper')
     IN /\ (differs /\ sends)
             => /\ Len(Toggles') = 1
                /\ Toggles'[1][2] = ExpectsExpensiveRendering'
                /\ mNotifiedExpensiveRendering' =
                     IF Toggles'[1][3] THEN ExpectsExpensiveRendering'
                     ELSE mNotifiedExpensiveRendering
                /\ mReconnectPowerHal' = ~Toggles'[1][3]
        /\ ~(differs /\ sends) => Toggles' = <<>>
        /\ ~differs => mNotifiedExpensiveRendering' = mNotifiedExpensiveRendering]_vars

\* a second display was flagged after the toggle call for the first failed:
\* the call is made again, and succeeds
C1_Witness ==
  /\ lastOp = <<"setExpensiveRenderingExpected", 2, TRUE>>
  /\ mExpensiveDisplays = {1, 2}
  /\ Toggles = << <<"setMode", TRUE, TRUE>> >>
  /\ mNotifiedExpensiveRendering

\* a session whose notifyDisplayUpdateImminent reaches the backend
SendsDisplayUpdateImminent(w) == w.kind = "aidl" /\ w.mHasDisplayUpdateImminent

\* C2 as stated: with a screen update timer, after onBootFinished, a
\* notifyDisplayUpdateImminent call that finds the armed flag true makes
\* exactly one backend call, and no other is made before the timeout callback
\* has set the flag back to true.
C2_ExactlyOneBoostPerWindow ==
  [][LET armedCall == /\ lastOp' = <<"notifyDisplayUpdateImminent">>
                      /\ mBootFinished /\ mSendUpdateImminent
     IN /\ (HasTimer /\ armedCall) => Boosts(halCalls') = 1
        /\ Boosts(halCalls') > 0 => armedCall
        /\ HasTimer => boostsSinceArm' <= 1]_vars

\* C2 amended: with a screen update timer, at most one backend setBoost call
\* is made between two stores of true to the armed flag by the timeout
\* callback, and none before onBootFinished; the call that finds the flag
\* true makes exactly one backend call when getPowerHal() returns a Modern
\* session with the DISPLAY_UPDATE_IMMINENT capability and none otherwise
\* (a Legacy session, no capability, no session); every call that finds the
\* flag false makes none.
C2_AtMostOneBoostPerWindow ==
  [][LET armedCall == /\ lastOp' = <<"notifyDisplayUpdateImminent">>
                      /\ mBootFinished /\ mSendUpdateImminent
         sends == fault' = "none" /\ SendsDisplayUpdateImminent(sHalWrapper')
     IN /\ (armedCall /\ sends) => Boosts(halCalls') = 1
        /\ ~(armedCall /\ sends) => Boosts(halCalls') = 0
        /\ (HasTimer /\ armedCall) => ~mSendUpdateImminent'
        /\ HasTimer => boostsSinceArm' <= 1]_vars

\* a call within the window of an earlier one that reached the backend: the
\* countdown is running, the flag is false, the call made no backend call
C2_Witness ==
  /\ lastOp = <<"notifyDisplayUpdateImminent">>
  /\ mBootFinished
  /\ mScreenUpdateTimer.state = "waiting"
  /\ mLastScreenUpdatedTime = now
  /\ now < mScreenUpdateTimer.triggerTime
  /\ mScreenUpdateTimer.triggerTime < now + UpdateTimeout
  /\ ~mSendUpdateImminent
  /\ halCalls = <<>>
  /\ boostsSinceArm = 1

\* a backend failure has been recorded and not yet acted on: the reconnect
\* flag is set, or the current session asks for a reconnect
FailureRecorded ==
  /\ sHalWrapper.kind # "none"
  /\ mReconnectPowerHal \/ (sHalWrapper.kind = "aidl" /\ sHalWrapper.mShouldReconnectHal)

\* the connect() calls of one connection attempt
ConnectionAttempts == {<<"aidl">>, <<"aidl", "hidl">>}

\* the operation named by op, called in the current state, calls
\* getPowerHal(); expects is the aggregate it computes
ReachesGetPowerHal(op, expects) ==
  LET cached == HasValue(mSupportsPowerHint)
      use == /\ ValueOr(mPowerHintEnabled, FALSE)
             /\ ~cached \/ mSupportsPowerHint[1]
  IN CASE op[1] = "setExpensiveRenderingExpected" -> expects # mNotifiedExpensiveRendering
       [] op[1] = "notifyDisplayUpdateImminent" -> mBootFinished /\ mSendUpdateImminent
       [] op[1] = "supportsPowerHintSession" -> ~cached
       [] op[1] = "usePowerHintSession" -> ValueOr(mPowerHintEnabled, FALSE) /\ ~cached
       [] op[1] = "setTargetWorkDuration" -> use
       [] op[1] = "sendActualWorkDuration" -> mBootFinished /\ use
       [] op[1] = "startPowerHintSession" -> TRUE
       [] OTHER -> FALSE

\* C3 as stated: once a backend failure has been recorded, the next public
\* operation, whichever it is, makes exactly one connection attempt.
C3_NextOperationReconnects ==
  [][FailureRecorded => probes' \in ConnectionAttempts]_vars

\* C3 amended: once a backend failure has been recorded, the next public
\* operation that calls getPowerHal() discards the session (closing its hint
\* session) and makes exactly one connection attempt, Modern first and Legacy
\* only if Modern is not found; an operation that does not call getPowerHal()
\* makes no attempt and leaves the session and the recorded failure in place.
\* No operation makes more than one attempt.
C3_NextGetPowerHalReconnects ==
  [][/\ probes' \in ConnectionAttempts \cup {<<>>}
     /\ FailureRecorded =>
          IF ReachesGetPowerHal(lastOp', ExpectsExpensiveRendering')
          THEN /\ probes' \in ConnectionAttempts
               /\ connected' # None
               /\ connected'[1].hadWrapper
               /\ (probes' = <<"aidl">>) = connected'[1].aidlUp
               /\ (sHalWrapper.kind = "aidl" /\ sHalWrapper.mPowerHintSession)
                    => halCalls'[1] = <<"close", "", TRUE>>
          ELSE /\ probes' = <<>>
               /\ halCalls' = <<>>
               /\ sHalWrapper' = sHalWrapper
               /\ mReconnectPowerHal' = mReconnectPowerHal]_vars

\* a Modern session with an open hint session asked for a reconnect; the
\* next startPowerHintSession call closed it and probed Modern, then Legacy
C3_Witness ==
  /\ lastOp[1] = "startPowerHintSession"
  /\ probes = <<"aidl", "hidl">>
  /\ connected # None
  /\ connected[1].hadWrapper
  /\ halCalls # <<>>
  /\ halCalls[1][1] = "close"
  /\ sHalWrapper.kind = "hidl"

IsCreate(call) == call[1] = "createHintSession"

\* C4: when a connection attempt replaces a session by a Modern one, the new
\* session holds the thread ids and the target duration the outgoing session
\* held (the target stays at its default when the outgoing session was
\* Legacy and had none), and right after the attempt a hint session has been
\* started on it, with those values and with mPowerHintSessionRunning set to
\* the result of the start, exactly when the outgoing session had a target
\* duration, its thread ids were not empty, and usePowerHintSession() holds
\* (hints enabled and supportsPowerHintSession() answering true); otherwise
\* no start is attempted and mPowerHintSessionRunning is false.
C4_ReconnectResumesHintSession ==
  (connected # None /\ connected[1].hadWrapper /\ connected[1].hal.kind = "aidl") =>
    LET k == connected[1]
        w == k.hal
        ids == IF k.old.kind = "aidl" THEN k.old.mPowerHintThreadIds ELSE <<>>
        hasTarget == k.old.kind = "aidl"
        target == IF hasTarget THEN k.old.mTargetDuration ELSE kDefaultTarget
        use == ValueOr(k.enabled, FALSE) /\ k.supports = Some(TRUE)
        creates == SelectSeq(k.calls, IsCreate)
    IN /\ w.mPowerHintThreadIds = ids
       /\ w.mTargetDuration = target
       /\ IF hasTarget /\ ids # <<>> /\ use
          THEN /\ Len(creates) = 1
               /\ creates[1][2] = <<ids, target>>
               /\ k.running = creates[1][3]
               /\ w.mPowerHintSession = k.running
          ELSE /\ creates = <<>>
               /\ ~k.running
               /\ ~w.mPowerHintSession

\* a Modern session with two threads, a target of 1,150,000 ns and a running
\* hint session was replaced by a Modern session on which the hint session
\* runs again
C4_Witness ==
  /\ connected # None
  /\ connected[1].hadWrapper
  /\ connected[1].old.kind = "aidl"
  /\ connected[1].old.mPowerHintSession
  /\ connected[1].hal.kind = "aidl"
  /\ connected[1].hal.mPowerHintThreadIds = <<1, 2>>
  /\ connected[1].hal.mTargetDuration = 115
  /\ connected[1].running
  /\ lastOp[1] = "setExpensiveRenderingExpected"
  /\ mPowerHintSessionRunning

\* C5: once a connection attempt has found no backend (sHasHal is false),
\* every public operation completes normally, makes no backend call and no
\* connection attempt, and the coordinator stays without a session.
C5_UnreachableOperationsAreNoOps ==
  [][~sHasHal =>
       /\ fault' = "none"
       /\ halCalls' = <<>>
       /\ probes' = <<>>
       /\ ~sHasHal'
       /\ sHalWrapper' = NoHal]_vars

\* C6: every connection attempt calls AidlPowerHalWrapper::connect() first
\* and HidlPowerHalWrapper::connect() only if that found nothing: with the
\* Modern service reachable (the Legacy one reachable or not) the session is
\* Modern; with only the Legacy one reachable the session is Legacy, its
\* supportsPowerHintSession() is false, and a supportsPowerHintSession() call
\* that made the attempt caches and answers false; with neither reachable
\* there is no session.
C6_ModernFirstThenLegacy ==
  connected # None =>
    LET k == connected[1]
    IN IF k.aidlUp
       THEN probes = <<"aidl">> /\ k.hal.kind = "aidl"
       ELSE IF k.hidlUp
       THEN /\ probes = <<"aidl", "hidl">>
            /\ k.hal.kind = "hidl"
            /\ ~halSupportsPowerHintSession(k.hal)
            /\ lastOp = <<"supportsPowerHintSession">> => mSupportsPowerHint = Some(FALSE)
       ELSE /\ probes = <<"aidl", "hidl">>
            /\ k.hal.kind = "none"
            /\ sHalWrapper = NoHal
            /\ ~sHasHal

\* supportsPowerHintSession() connected with only the Legacy service
\* reachable
C6_Witness ==
  /\ lastOp = <<"supportsPowerHintSession">>
  /\ connected # None
  /\ ~connected[1].aidlUp
  /\ connected[1].hidlUp
  /\ probes = <<"aidl", "hidl">>
  /\ sHalWrapper = HidlPowerHalWrapper
  /\ mSupportsPowerHint = Some(FALSE)

IsTargetUpdate(call) == call[1] = "updateTargetWorkDuration"

\* the step is a call of the named operation that reaches the current Modern
\* session: hint sessions are in use and getPowerHal() keeps the session
ReachesModernSession(name) ==
  /\ lastOp'[1] = name
  /\ sHalWrapper.kind = "aidl"
  /\ ValueOr(mPowerHintEnabled, FALSE)
  /\ mSupportsPowerHint = Some(TRUE)
  /\ probes' = <<>>
  /\ fault' = "none"

\* C7: on a Modern session setTargetWorkDuration(d) stores d as the target
\* duration; it calls updateTargetWorkDuration(d), once, if and only if
\* normalize mode is off, the hint session is running, d > 0 and
\* |1 - lastTargetDurationSent / d| is at least the target deviation
\* threshold; lastTargetDurationSent becomes d exactly when the call is made.
\* With lastTargetDurationSent = 1,000,000 ns a target of 1,050,000 ns makes
\* no call and one of 1,150,000 ns makes one.  In normalize mode no call is
\* made.
C7_TargetPushedIffDeviates ==
  [][ReachesModernSession("setTargetWorkDuration") =>
       LET d == lastOp'[2] - kTargetSafetyMargin
           w == sHalWrapper
           pushes == SelectSeq(halCalls', IsTargetUpdate)
           due == /\ ~sNormalizeTarget
                  /\ w.mPowerHintSession
                  /\ d > 0
                  /\ 100 * Abs(d - w.mLastTargetDurationSent)
                       >= kAllowedTargetDeviationPercent * d
       IN /\ sHalWrapper'.mTargetDuration = d
          /\ halCalls' = pushes
          /\ due => Len(pushes) = 1 /\ pushes[1][2] = d
          /\ ~due => pushes = <<>>
          /\ sHalWrapper'.mLastTargetDurationSent =
               IF due THEN d ELSE w.mLastTargetDurationSent
          /\ sNormalizeTarget => pushes = <<>>
          /\ (~sNormalizeTarget /\ w.mPowerHintSession /\ w.mLastTargetDurationSent = 100)
               => /\ d = 105 => pushes = <<>>
                  /\ d = 115 => pushes # <<>>]_vars

\* with 1,000,000 ns sent last and the hint session running, a target of
\* 1,050,000 ns was stored and not sent
C7_Witness ==
  /\ lastOp = <<"setTargetWorkDuration", 305>>
  /\ ~sNormalizeTarget
  /\ sHalWrapper.kind = "aidl"
  /\ sHalWrapper.mPowerHintSession
  /\ sHalWrapper.mTargetDuration = 105
  /\ sHalWrapper.mLastTargetDurationSent = 100
  /\ halCalls = <<>>
  /\ probes = <<>>

IsReport(call) == call[1] = "reportActualWorkDuration"

Last(q) == q[Len(q)]

\* C8: on a Modern session with a running hint session, a
\* sendActualWorkDuration call with a non-negative duration queues exactly
\* one record, and reports the queue during the call if and only if nothing
\* has been reported yet, or more than the staleness bound has passed since
\* the last report, or the queued duration differs from the last reported
\* one by at least the actual deviation threshold; otherwise the record
\* stays queued and no backend call is made.
C8_ReportedIffDue ==
  [][(/\ ReachesModernSession("sendActualWorkDuration")
      /\ mBootFinished
      /\ sHalWrapper.mPowerHintSession
      /\ lastOp'[2] >= 0) =>
       LET w == sHalWrapper
           reports == SelectSeq(halCalls', IsReport)
           pending == IF reports # <<>> THEN reports[1][2]
                      ELSE sHalWrapper'.mPowerHintQueue
           last == w.mLastActualDurationSent
           due == \/ ~HasValue(last)
                  \/ now - w.mLastActualReportTimestamp > kStaleTimeout
                  \/ 100 * Abs(last[1] - Last(pending).durationNanos)
                       >= kAllowedActualDeviationPercent * Abs(last[1])
       IN /\ pending = Append(w.mPowerHintQueue, Last(pending))
          /\ Last(pending).timeStampNanos = nReports'
          /\ nReports' = nReports + 1
          /\ accepted' = Append(accepted, nReports')
          /\ halCalls' = reports
          /\ due => Len(reports) = 1
          /\ ~due => reports = <<>> /\ sHalWrapper'.mPowerHintQueue = pending]_vars

\* a first report was sent; the next call, in the same 50 ms and with a
\* duration 2% longer, is queued and not sent
C8_Witness ==
  /\ lastOp = <<"sendActualWorkDuration", 102>>
  /\ sHalWrapper.kind = "aidl"
  /\ sHalWrapper.mPowerHintSession
  /\ sHalWrapper.mLastActualDurationSent = Some(100)
  /\ sHalWrapper.mLastActualReportTimestamp = now
  /\ Len(sHalWrapper.mPowerHintQueue) = 1
  /\ sHalWrapper.mPowerHintQueue[1].durationNanos = 102
  /\ halCalls = <<>>
  /\ sent = <<1>>
  /\ accepted = <<1, 2>>

StrictlyIncreasing(q) == \A i \in 1..Len(q) - 1 : q[i] < q[i + 1]

\* C9: a report call carries exactly the records queued since the previous
\* report call on the session (the whole queue, then the record of this
\* call), in arrival order, in one call; after it the queue is empty and
\* mLastActualDurationSent and mLastActualReportTimestamp are updated.  So on
\* one Modern session the records accepted so far are the records reported
\* so far followed by the queue: no record is reported twice or out of order,
\* also across a restart of the hint session with other thread ids.
C9_BatchIsQueueInOrder ==
  [][LET reports == SelectSeq(halCalls', IsReport)
         queue == IF probes' = <<>> /\ sHalWrapper.kind = "aidl"
                  THEN sHalWrapper.mPowerHintQueue ELSE <<>>
     IN /\ sHalWrapper'.kind = "aidl"
             => accepted' = sent' \o Stamps(sHalWrapper'.mPowerHintQueue)
        /\ StrictlyIncreasing(accepted')
        /\ reports # <<>>
             => /\ Len(reports) = 1
                /\ lastOp'[1] = "sendActualWorkDuration"
                /\ Len(reports[1][2]) = Len(queue) + 1
                /\ reports[1][2] = Append(queue, Last(reports[1][2]))
                /\ Last(reports[1][2]).timeStampNanos = nReports'
                /\ nReports' = nReports + 1
                /\ sent' = (IF probes' = <<>> THEN sent ELSE <<>>) \o Stamps(reports[1][2])
                /\ sHalWrapper'.mPowerHintQueue = <<>>
                /\ sHalWrapper'.mLastActualDurationSent
                     = Some(Last(reports[1][2]).durationNanos)
                /\ sHalWrapper'.mLastActualReportTimestamp = now]_vars

\* the second record was queued, the hint session was restarted with other
\* thread ids, and the third call reported the second and third record
C9_Witness ==
  /\ lastOp[1] = "sendActualWorkDuration"
  /\ sHalWrapper.kind = "aidl"
  /\ sHalWrapper.mPowerHintThreadIds = <<1, 2>>
  /\ Len(halCalls) = 1
  /\ IsReport(halCalls[1])
  /\ Stamps(halCalls[1][2]) = <<2, 3>>
  /\ sent = <<1, 2, 3>>
  /\ accepted = <<1, 2, 3>>
  /\ sHalWrapper.mPowerHintQueue = <<>>

\* C10 as stated: a report call that fails leaves its records in the queue,
\* and the queue never loses records without a successful report call.
C10_QueueKeptOnFailure ==
  [][(sHalWrapper.kind = "aidl" /\ sHalWrapper'.kind = "aidl" /\ probes' = <<>>) =>
       LET reports == SelectSeq(halCalls', IsReport)
       IN /\ (reports # <<>> /\ ~reports[1][3])
               => sHalWrapper'.mPowerHintQueue = reports[1][2]
          /\ Len(sHalWrapper'.mPowerHintQueue) < Len(sHalWrapper.mPowerHintQueue)
               => (reports # <<>> /\ reports[1][3])]_vars

\* C10 amended: the queue is cleared exactly when a report call is issued,
\* whether the call succeeds or fails; a failed call drops its records and
\* sets mShouldReconnectHal; without a report call the queue only grows.
C10_QueueClearedOnEveryReport ==
  [][(sHalWrapper.kind = "aidl" /\ sHalWrapper'.kind = "aidl" /\ probes' = <<>>) =>
       LET reports == SelectSeq(halCalls', IsReport)
           queue == sHalWrapper.mPowerHintQueue
           queue2 == sHalWrapper'.mPowerHintQueue
       IN IF reports # <<>>
          THEN /\ queue2 = <<>>
               /\ ~reports[1][3] => sHalWrapper'.mShouldReconnectHal
               /\ reports[1][3] =>
                    sHalWrapper'.mShouldReconnectHal = sHalWrapper.mShouldReconnectHal
          ELSE /\ Len(queue2) >= Len(queue)
               /\ SubSeq(queue2, 1, Len(queue)) = queue]_vars

\* a report call with two records failed: the queue is empty and the
\* session asks for a reconnect
C10_Witness ==
  /\ lastOp[1] = "sendActualWorkDuration"
  /\ sHalWrapper.kind = "aidl"
  /\ Len(halCalls) = 1
  /\ IsReport(halCalls[1])
  /\ ~halCalls[1][3]
  /\ Len(halCalls[1][2]) = 2
  /\ sHalWrapper.mPowerHintQueue = <<>>
  /\ sHalWrapper.mShouldReconnectHal

\* C11: in every reachable state mPowerHintSessionRunning implies that the
\* current session is Modern and holds an open hint session; with a Legacy
\* session or none the flag is false.  A hint session is open only after a
\* createHintSession call that succeeded: a step after which a hint session
\* is open either left the open session of the same wrapper alone or made a
\* successful createHintSession call as its last create.
C11_RunningImpliesModernSessionOpen ==
  [][LET creates == SelectSeq(halCalls', IsCreate)
     IN /\ mPowerHintSessionRunning'
             => (sHalWrapper'.kind = "aidl" /\ sHalWrapper'.mPowerHintSession)
        /\ sHalWrapper'.kind \in {"none", "hidl"} => ~mPowerHintSessionRunning'
        /\ (sHalWrapper'.kind = "aidl" /\ sHalWrapper'.mPowerHintSession)
             => IF creates # <<>>
                THEN Last(creates)[3]
                ELSE /\ probes' = <<>>
                     /\ sHalWrapper.kind = "aidl"
                     /\ sHalWrapper.mPowerHintSession]_vars

\* a running hint session was lost when its Modern session was replaced by
\* a Legacy one: the flag is false
C11_Witness ==
  /\ connected # None
  /\ connected[1].old.kind = "aidl"
  /\ connected[1].old.mPowerHintSession
  /\ sHalWrapper = HidlPowerHalWrapper
  /\ halCalls[1][1] = "close"
  /\ ~mPowerHintSessionRunning

\* the operations that read mBootFinished on entry
BootGated == {"notifyDisplayUpdateImminent", "sendActualWorkDuration"}

\* C12 as stated: before onBootFinished() has been called no public operation
\* makes a call to the backend.
C12_NoBackendCallBeforeBoot ==
  [][~mBootFinished => halCalls' = <<>>]_vars

\* C12 amended: mBootFinished gates notifyDisplayUpdateImminent and
\* sendActualWorkDuration: called before onBootFinished() they make no
\* backend call and no connection attempt, leave the session, the armed flag,
\* the capability cache and the queue as they were, and queue no record.
\* Only onBootFinished() sets the flag and nothing clears it.  (The other
\* operations do not read the flag: the witness of the original statement's
\* violation is a setExpensiveRenderingExpected call before boot.)
C12_BootGatesImminentAndReports ==
  [][/\ (~mBootFinished /\ lastOp'[1] \in BootGated)
          => /\ halCalls' = <<>>
             /\ probes' = <<>>
             /\ sHalWrapper' = sHalWrapper
             /\ sHasHal' = sHasHal
             /\ mSendUpdateImminent' = mSendUpdateImminent
             /\ mSupportsPowerHint' = mSupportsPowerHint
             /\ mReconnectPowerHal' = mReconnectPowerHal
             /\ nReports' = nReports
             /\ accepted' = accepted
     /\ mBootFinished => mBootFinished'
     /\ (~mBootFinished /\ mBootFinished') => lastOp' = <<"onBootFinished">>]_vars

\* before onBootFinished() a hint session runs on a Modern session and the
\* armed flag is true, and a sendActualWorkDuration call made no backend call
\* and queued nothing
C12_Witness ==
  /\ ~mBootFinished
  /\ lastOp[1] = "sendActualWorkDuration"
  /\ sHalWrapper.kind = "aidl"
  /\ sHalWrapper.mPowerHintSession
  /\ mPowerHintSessionRunning
  /\ mSupportsPowerHint = Some(TRUE)
  /\ mPowerHintEnabled = Some(TRUE)
  /\ mSendUpdateImminent
  /\ sHalWrapper.mPowerHintQueue = <<>>
  /\ halCalls = <<>>

\* C13: mPowerHintSessionRunning mirrors the backend: whenever the program
\* runs, isPowerHintSessionRunning() answers true if and only if a hint
\* session is open on the current Modern session, also after repeated
\* startPowerHintSession calls and after reconnects.
C13_RunningMirrorsBackend ==
  fault = "none" =>
    (mPowerHintSessionRunning
       <=> (sHalWrapper.kind = "aidl" /\ sHalWrapper.mPowerHintSession))

\* C14: the cached mSupportsPowerHint describes the current session: whenever
\* the cache holds a value and there is a session, the value (the answer of
\* supportsPowerHintSession()) is that session's capability, also after a
\* reconnect to a session of another generation or capability.
C14_CacheDescribesCurrentSession ==
  (fault = "none" /\ HasValue(mSupportsPowerHint) /\ sHalWrapper.kind # "none") =>
    mSupportsPowerHint[1] = (sHalWrapper.kind = "aidl" /\ sHalWrapper.mSupportsPowerHint)

\* the calls made through a hint-session handle (IPowerHintSession)
IsHandleCall(call) ==
  call[1] \in {"close", "updateTargetWorkDuration", "reportActualWorkDuration"}

\* the first call made through a newly connected Modern service
IsConnectProbe(call) == call[1] = "isModeSupported"

\* what a call adds to the number of hint sessions open at the backend
Opens(call) ==
  IF IsCreate(call) /\ call[3] THEN 1 ELSE IF call[1] = "close" THEN -1 ELSE 0

\* the number of hint sessions open at the backend after the first k calls
\* of a sequence, when open were open before it
RECURSIVE OpenAfter(_, _, _)
OpenAfter(calls, k, open) ==
  IF k = 0 THEN open ELSE OpenAfter(calls, k - 1, open) + Opens(calls[k])

\* the hint sessions a wrapper holds a handle to
Held(w) == IF w.kind = "aidl" /\ w.mPowerHintSession THEN 1 ELSE 0

\* C15: at most one session is live and at most one hint session is open at
\* the backend.  Through the calls of every step the number of open hint
\* sessions stays 0 or 1 and ends as the handle of the current session says;
\* a hint session is created only when none is open, and a call through a
\* hint-session handle is made only while one is open (never through a handle
\* that was closed); a step makes at most one connection attempt, and when it
\* makes one, the close of the outgoing session's hint session, if it had
\* one, is the only call made before the attempt, and no hint session is
\* open when the new service is first called.
C15_OneSessionOneHintSession ==
  [][LET calls == halCalls'
         open(k) == OpenAfter(calls, k, Held(sHalWrapper))
         probeAt == {k \in 1..Len(calls) : IsConnectProbe(calls[k])}
     IN /\ \A k \in 1..Len(calls) :
             /\ open(k) \in {0, 1}
             /\ IsCreate(calls[k]) => open(k - 1) = 0
             /\ IsHandleCall(calls[k]) => open(k - 1) = 1
             /\ IsConnectProbe(calls[k]) => open(k - 1) = 0
        /\ open(Len(calls)) = Held(sHalWrapper')
        /\ Cardinality(probeAt) <= 1
        /\ probes' \in ConnectionAttempts \cup {<<>>}
        /\ probes' # <<>> =>
             /\ Held(sHalWrapper) = 1 => calls[1] = <<"close", "", TRUE>>
             /\ \A k \in probeAt : k = Held(sHalWrapper) + 1
             /\ (probeAt = {}) => sHalWrapper'.kind # "aidl"
             /\ (probeAt # {}) => sHalWrapper'.kind = "aidl"]_vars

\* a Modern session with a running hint session was superseded by a Modern
\* session on which the hint session was resumed: the old hint session was
\* closed first, then the new service was probed, then the new one created
C15_Witness ==
  /\ connected # None
  /\ Held(connected[1].old) = 1
  /\ Len(halCalls) >= 5
  /\ halCalls[1][1] = "close"
  /\ IsConnectProbe(halCalls[2])
  /\ IsCreate(halCalls[5]) /\ halCalls[5][3]
  /\ Held(sHalWrapper) = 1

\* the calls of the two notifications: the toggle calls and setBoost
IsNotification(call) == IsToggle(call) \/ IsBoost(call)

\* C16: a setExpensiveRenderingExpected or notifyDisplayUpdateImminent call
\* whose backend call fails does not make the call again: it makes that one
\* attempt (the last backend call of the operation), sets mReconnectPowerHal
\* and returns, with mNotifiedExpensiveRendering, the screen update timer and
\* mLastScreenUpdatedTime as they were and the failed session still in
\* place, so that the reconnect is left to a later call.
C16_FailedNotificationIsNotRetried ==
  [][LET notifications == SelectSeq(halCalls', IsNotification)
     IN /\ Len(notifications) <= 1
        /\ (notifications # <<>> /\ ~notifications[1][3]) =>
             /\ lastOp'[1] \in {"setExpensiveRenderingExpected",
                                "notifyDisplayUpdateImminent"}
             /\ Last(halCalls') = notifications[1]
             /\ mReconnectPowerHal'
             /\ sHalWrapper'.kind # "none"
             /\ mNotifiedExpensiveRendering' = mNotifiedExpensiveRendering
             /\ mScreenUpdateTimer' = mScreenUpdateTimer
             /\ mLastScreenUpdatedTime' = mLastScreenUpdatedTime]_vars

\* after the timeout callback had set the armed flag again, a
\* notifyDisplayUpdateImminent call failed at setBoost: one attempt, the
\* reconnect flag set, the timer left idle and the update time not recorded
C16_Witness ==
  /\ lastOp = <<"notifyDisplayUpdateImminent">>
  /\ halCalls = << <<"setBoost", "DISPLAY_UPDATE_IMMINENT", FALSE>> >>
  /\ mReconnectPowerHal
  /\ mScreenUpdateTimer.state = "idle"
  /\ mLastScreenUpdatedTime < now
  /\ sHalWrapper.kind = "aidl"

Enqueued ==
  LET reports == SelectSeq(halCalls', IsReport)
  IN IF reports # <<>> THEN Last(reports[1][2]) ELSE Last(sHalWrapper'.mPowerHintQueue)

\* a sendActualWorkDuration step that queues a record on the current Modern
\* session
QueuesRecord ==
  /\ ReachesModernSession("sendActualWorkDuration")
  /\ mBootFinished
  /\ sHalWrapper.mPowerHintSession
  /\ lastOp'[2] >= 0

C19_TimeoutNeverFiresEarly ==
  [][lastOp' = <<"disableExpensiveRendering">>
       => now - mLastScreenUpdatedTime >= UpdateTimeout]_vars

\* C20: no thread tries to lock mPowerHalMutex while it already holds it:
\* every public operation completes without self-deadlock, for every order
\* of the operations.
C20_NoSelfDeadlock == fault # "deadlock"

\* C21: with several threads calling setExpensiveRenderingExpected at once
\* against a reachable backend whose calls all succeed, once every call has
\* returned, the value the backend accepted last and
\* mNotifiedExpensiveRendering both equal !mExpensiveDisplays.empty().
C21_ConcurrentCallsAgree ==
  (fault = "none" /\ \A t \in Callers : callers[t].pc = "outside")
    => /\ mNotifiedExpensiveRendering = (mExpensiveDisplays # {})
       /\ delivered = (mExpensiveDisplays # {})

\* C23: mNotifiedExpensiveRendering describes the current backend session:
\* whenever a wrapper exists that is not marked for a reconnect and no
\* operation is in progress, it equals the value that wrapper's
\* setExpensiveRendering() accepted last (false if it accepted none).
C23_NotifiedDescribesSession ==
  (/\ fault = "none"
   /\ sHalWrapper.kind # "none"
   /\ ~mReconnectPowerHal
   /\ ~shouldReconnectHAL(sHalWrapper))
    => mNotifiedExpensiveRendering = delivered

\* no countdown is running and the timer thread is not in a callback
TimerAtRest == mScreenUpdateTimer.state \in {"absent", "idle"}

\* C22: update-imminent signalling always recovers: when a
\* notifyDisplayUpdateImminent() call has consumed the armed flag and
\* returned early, leaving the flag false with the timer at rest, the flag
\* eventually becomes true again.
C22_ArmedFlagRecovers ==
  []((mBootFinished /\ ~mSendUpdateImminent /\ TimerAtRest) => <>mSendUpdateImminent)

====
